---- MODULE Spec2Model ----
(***************************************************************************)
(* Model of the review-document tracker: the sync daemon (sync_daemon.py), *)
(* the sheet store (sheets_db.py) and the two other callers of             *)
(* upsert_documents (the dashboard of app.py, demo_data_generator.py).     *)
(*                                                                         *)
(* The Drive folder and the "Active Reviews" worksheet are shared state.   *)
(* Every remote call (files().list, get_all_records, batch_clear, update)  *)
(* of the daemon is one atomic step; a dashboard call and the edits a      *)
(* reviewer types into the sheet fall between any two of them.             *)
(***************************************************************************)
EXTENDS Integers, Sequences, FiniteSets, TLC

\* ---------------------------------------------------------------- bounds
\* Document identities (webViewLink values) that exist in the Drive account.
Links == {"a", "b"}
\* Number of events outside the two programs (files moved in or out of the
\* folder, edits typed into the sheet, dashboard submissions) in one run.
MaxEvents == 2
\* Largest number of documents the dashboard submits in one call.
MaxBatch == 1
\* Number of interval ticks of the scheduler in one run.
MaxTicks == 3
\* Timestamps given to the priority engine: instants per day, days before
\* now, days after now.
TicksPerDay == 2
MaxDays == 31
MaxAhead == 2
\* DataFrames given to enrich_documents_with_priority: number of rows, and
\* days between the oldest and the newest timestamp of a row.
MaxRows == 2
MaxSpan == 1
\* Longest display name given to parse_filename, in characters.
MaxNameLen == 6
\* Returned calls of sync_job that are counted in one run of the daemon.
MaxCycles == 3
\* Documents a large review folder may hold beyond one page of files().list,
\* and the positions of its listing at which Drive may start.
MaxOver == 1
MaxShift == 1
\* Free-text notes a reviewer may type.
NoteTexts == {"", "looks good"}

\* ------------------------------------------------------------- constants
\* files().list(q=query, pageSize=100, ...)
pageSize == 100

\* The status list of the sheet's validation rule.
Statuses ==
    {"Pending", "In Review", "Approved", "Needs Changes", "Completed", "Archived"}
\* doc.get('status_override') of a dict without that key.
None == "<None>"
\* Statuses a reviewer types into column E, and statuses the dashboard
\* submits as status_override, in this model.
SheetStatuses == {"Pending", "Approved", "Archived"}
Overrides == {"Pending", "Approved", "Archived"}
\* The 'notes' of a submitted change: absent (demo seeding) or typed text.
SubmittedNotes == {None, "fix it"}

VARIABLES
    drive,            \* Drive account: link -> is the file in the review folder
    store,            \* data rows A2:J1000 of the worksheet, top to bottom
    pc,               \* position of the running call (sync_job, or a bare upsert_documents)
    drive_docs,       \* sync_job: result of scan_review_folder()
    existing_rows,    \* sync_job: existing_df.to_dict('records')
    documents,        \* upsert_documents: the argument
    existing_records, \* upsert_documents: ws.get_all_records()
    rows_to_write,    \* upsert_documents: rows_to_write
    committed,        \* history: the rows as the last completed write or edit left them
    prev,             \* history: scan and result of the last completed write of sync_job, if nothing happened since
    events,           \* history: number of outside events so far
    trail,            \* history: what the running sync_job has done so far
    sched,            \* main of sync_daemon.py and its BlockingScheduler
    calc,             \* the last call into priority_engine.py or parse_filename
    meta,             \* Drive files with an unparseable timestamp; does the worksheet exist
    cycles            \* history: number of calls of sync_job that have returned

vars == <<drive, store, pc, drive_docs, existing_rows, documents,
          existing_records, rows_to_write, committed, prev, events,
          trail, sched, calc, meta, cycles>>

\* The locals of sync_job and of upsert_documents.
job == <<drive_docs, existing_rows>>
frame == <<documents, existing_records, rows_to_write>>

\* The state of the scheduler and of the priority engine, the condition of
\* the two services, the count of finished cycles.
aux == <<sched, calc, meta, cycles>>

\* Every timestamp of Drive parses and the "Active Reviews" worksheet exists.
Sound == [bad |-> {}, worksheet |-> TRUE]

\* The running sync_job has called nothing yet: no call has raised, nothing
\* was written, batch_clear has removed no rows.
NoTrail == [raised_at |-> "", wrote |-> FALSE, cleared |-> <<>>]

\* main is not running: phase of main, number of sync_job calls in progress,
\* interval ticks fired, ticks skipped, outcome of the last finished call.
NoSched == [phase |-> "off", running |-> 0, ticks |-> 0, skipped |-> 0,
            last |-> "none"]

\* No function of priority_engine.py has been called.
NoCalc == [op |-> "none"]

\* No cycle has just ended, or something happened since it did.
NoPrev == [scan |-> <<>>, result |-> <<>>, valid |-> FALSE]

\* ------------------------------------------------------------ timestamps
\* A timestamp is [t, tz]: the instant and whether the value carries a UTC
\* offset ("...+00:00" when printed).
Aware(t) == [t |-> t, tz |-> TRUE]
Naive(t) == [t |-> t, tz |-> FALSE]

\* str(x).split('+')[0]: the printed value up to the offset.
FormatCell(ts) == [t |-> ts.t, tz |-> FALSE]

\* ----------------------------------------------------------- Drive scan
DriveName(l) == "Design " \o l
DriveOwner(l) == "Owner " \o l
\* parser.parse(item['createdTime']) and parser.parse(item['modifiedTime']):
\* offset-aware instants (day 0 and day 1).
DriveCreated == Aware(0)
DriveModified == Aware(1)
\* datetime.now() in the dashboard and the demo seeding: no offset (day 2).
DashboardNow == Naive(2)

\* One element of processed_docs.
doc_data(l, d) ==
    [topic |-> DriveName(l), architect |-> DriveOwner(l), link |-> l,
     modified_time |-> DriveModified,
     created_time |-> DriveCreated,
     status_override |-> None, notes |-> None]

InFolder(d) == {l \in DOMAIN d : d[l]}

\* The orders in which files().list may return the files of the folder.
Listings(S) ==
    {s \in UNION {[1..n -> S] : n \in {Cardinality(S)}} :
        \A i, j \in DOMAIN s : i # j => s[i] # s[j]}

\* results.get('files', []): the first page of a listing. nextPageToken is
\* requested in fields and never read, list is called once.
Page(s) == SubSeq(s, 1, IF Len(s) < pageSize THEN Len(s) ELSE pageSize)

\* processed_docs for the listings the call may get.
scan_results(d, listings) ==
    {[i \in DOMAIN Page(s) |-> doc_data(Page(s)[i], d)] : s \in listings}

scan_review_folder(d) == scan_results(d, Listings(InFolder(d)))

\* -------------------------------------------------------------- sync_job
\* Variant: the owner is dropped like last_editor.
map_sheet_row_to_doc_dict_owner_lost(row) ==
    [topic |-> row.name, architect |-> "Unknown", link |-> row.link,
     modified_time |-> row.modified, created_time |-> row.created,
     status_override |-> "Archived", notes |-> None]

map_sheet_row_to_doc_dict(row) ==
    [topic |-> row.name, architect |-> row.owner, link |-> row.link,
     modified_time |-> row.modified, created_time |-> row.created,
     status_override |-> "Archived", notes |-> None]

drive_links(docs) == {docs[i].link : i \in DOMAIN docs}

\* Variant: the test against drive_links is left out.
IsMissingIgnoresScan(row, links) ==
    /\ row.link # ""
    /\ row.status # "Archived"

\* Variant: a row that is already Archived is archived again.
IsMissingRearchives(row, links) ==
    /\ row.link # ""
    /\ row.link \notin links

\* "if link and link not in drive_links and status != 'Archived'"
IsMissing(row, links) ==
    /\ row.link # ""
    /\ row.link \notin links
    /\ row.status # "Archived"

RECURSIVE archived_docs(_, _)
archived_docs(rows, links) ==
    IF rows = <<>> THEN <<>>
    ELSE (IF IsMissing(Head(rows), links)
          THEN <<map_sheet_row_to_doc_dict(Head(rows))>> ELSE <<>>)
         \o archived_docs(Tail(rows), links)

final_list(docs, rows) == docs \o archived_docs(rows, drive_links(docs))

\* ------------------------------------------------------ upsert_documents
\* {r.get('Google Doc Link', ''): r for r in existing_records}: the last row
\* of a link wins.
existing_map(records) ==
    [l \in {records[i].link : i \in DOMAIN records} |->
        records[CHOOSE i \in DOMAIN records :
                   /\ records[i].link = l
                   /\ \A j \in DOMAIN records : j > i => records[j].link # l]]

\* Variant: the elif branch is missing, every unforced row is Pending.
ResolveStatusNoPreserve(doc, emap) ==
    IF doc.status_override = "Archived" THEN "Archived" ELSE "Pending"

\* Variant: any supplied override is written.
ResolveStatusHonoursOverride(doc, emap) ==
    IF doc.status_override # None THEN doc.status_override
    ELSE IF doc.link \in DOMAIN emap THEN emap[doc.link].status
    ELSE "Pending"

\* Variant: the default status is Archived.
ResolveStatusArchivesNew(doc, emap) ==
    IF doc.status_override = "Archived" THEN "Archived"
    ELSE IF doc.link \in DOMAIN emap THEN emap[doc.link].status
    ELSE "Archived"

\* Lines 166-180: the status written for doc.
ResolveStatus(doc, emap) ==
    IF doc.status_override = "Archived" THEN "Archived"
    ELSE IF doc.link \in DOMAIN emap THEN emap[doc.link].status
    ELSE "Pending"

\* Variant: every write adds a mark to the notes of a known row.
ResolveNotesAppends(doc, emap) ==
    IF doc.link \in DOMAIN emap THEN emap[doc.link].notes \o "+" ELSE ""

\* Lines 167-181: the notes written for doc.
ResolveNotes(doc, emap) ==
    IF doc.link \in DOMAIN emap THEN emap[doc.link].notes ELSE ""

\* Columns A-E, I, J of one written row (F-H hold formulas over C and D).
Row(doc, emap) ==
    [name |-> doc.topic, owner |-> doc.architect,
     created |-> FormatCell(doc.created_time),
     modified |-> FormatCell(doc.modified_time),
     status |-> ResolveStatus(doc, emap),
     link |-> doc.link,
     notes |-> ResolveNotes(doc, emap)]

Rows(docs, records) ==
    [i \in DOMAIN docs |-> Row(docs[i], existing_map(records))]

\* ------------------------------------------------------------------ Init
\* The daemon starts on an empty worksheet; the folder holds any of the files.
Init ==
    /\ drive \in [Links -> BOOLEAN]
    /\ store = <<>>
    /\ pc = "idle"
    /\ drive_docs = <<>>
    /\ existing_rows = <<>>
    /\ documents = <<>>
    /\ existing_records = <<>>
    /\ rows_to_write = <<>>
    /\ committed = <<>>
    /\ prev = NoPrev
    /\ events = 0
    /\ trail = NoTrail
    /\ sched = NoSched
    /\ calc = NoCalc
    /\ meta = Sound
    /\ cycles = 0

\* ----------------------------------------------------- the Drive folder
\* A document is moved into the review folder (or restored from the trash).
AddFile(l) ==
    /\ events < MaxEvents
    /\ ~drive[l]
    /\ drive' = [drive EXCEPT ![l] = TRUE]
    /\ events' = events + 1
    /\ prev' = NoPrev
    /\ UNCHANGED <<store, pc, job, frame, committed, trail, aux>>

\* A document is trashed or moved out of the review folder.
RemoveFile(l) ==
    /\ events < MaxEvents
    /\ drive[l]
    /\ drive' = [drive EXCEPT ![l] = FALSE]
    /\ events' = events + 1
    /\ prev' = NoPrev
    /\ UNCHANGED <<store, pc, job, frame, committed, trail, aux>>

\* -------------------------------------------------- edits in the sheet
\* A reviewer sets Status (column E, from the validation list) and Notes
\* (column J) of one row directly in the worksheet.
SheetEdit(i, s, n) ==
    /\ events < MaxEvents
    /\ i \in DOMAIN store
    /\ <<s, n>> # <<store[i].status, store[i].notes>>
    /\ store' = [store EXCEPT ![i].status = s, ![i].notes = n]
    /\ committed' = store'
    /\ events' = events + 1
    /\ prev' = NoPrev
    /\ UNCHANGED <<drive, pc, job, frame, trail, aux>>

\* ------------------------------------------------------------- sync_job
\* main / the scheduler calls sync_job().
StartSync ==
    /\ pc = "idle"
    /\ pc' = "scan"
    /\ UNCHANGED <<drive, store, job, frame, committed, prev, events, trail, aux>>

\* drive_docs = scan_review_folder()
ScanReviewFolder ==
    /\ pc = "scan"
    /\ InFolder(drive) \cap meta.bad = {}
    /\ \E docs \in scan_review_folder(drive) : drive_docs' = docs
    /\ pc' = "read"
    /\ UNCHANGED <<drive, store, existing_rows, frame, committed, prev, events, trail, aux>>

\* existing_df = get_all_documents(), then steps 2-4 up to the call of
\* upsert_documents(final_list); with an empty final_list the job is over
\* ("No data to process").
GetAllDocuments ==
    /\ pc = "read"
    /\ meta.worksheet
    /\ existing_rows' = store
    /\ LET fl == final_list(drive_docs, store) IN
        IF fl # <<>>
        THEN /\ documents' = fl
             /\ pc' = "upsert"
        ELSE /\ documents' = documents
             /\ pc' = "nodata"
    /\ UNCHANGED <<drive, store, drive_docs, existing_records, rows_to_write,
                   committed, prev, events, trail, aux>>

\* --------------------------------- upsert_documents, called by sync_job
\* sh.worksheet("Active Reviews") of the try block adds the worksheet when
\* it is missing.
\* existing_records = ws.get_all_records(), then the loop that builds
\* rows_to_write; an empty rows_to_write skips the write.
GetAllRecords ==
    /\ pc = "upsert"
    /\ existing_records' = store
    /\ rows_to_write' = Rows(documents, store)
    /\ pc' = IF documents # <<>> THEN "clear" ELSE "done"
    /\ meta' = [meta EXCEPT !.worksheet = TRUE]
    /\ UNCHANGED <<drive, store, job, documents, committed, prev, events, trail,
                   sched, calc, cycles>>

\* ws.batch_clear(['A2:J1000'])
BatchClear ==
    /\ pc = "clear"
    /\ store' = <<>>
    /\ trail' = [trail EXCEPT !.wrote = TRUE, !.cleared = store]
    /\ pc' = "update"
    /\ UNCHANGED <<drive, job, frame, committed, prev, events, aux>>

\* ws.update('A2', rows_to_write, ...), then "Sync Complete".
Update ==
    /\ pc = "update"
    /\ store' = rows_to_write
    /\ committed' = store'
    /\ prev' = [scan |-> drive_docs, result |-> rows_to_write, valid |-> TRUE]
    /\ trail' = [trail EXCEPT !.wrote = TRUE]
    /\ pc' = "done"
    /\ UNCHANGED <<drive, job, frame, events, aux>>

\* As Raise, but scan_review_folder catches its own error and returns [].
RaiseScanSwallowed ==
    /\ pc \in {"scan", "read", "upsert", "clear", "update"}
    /\ pc' = IF pc = "scan" THEN "read" ELSE "failed"
    /\ trail' = [trail EXCEPT !.raised_at = pc]
    /\ prev' = NoPrev
    /\ UNCHANGED <<drive, store, job, frame, committed, events, aux>>

\* As Raise, but the exception leaves sync_job and ends the process.
RaiseEscapes ==
    /\ pc \in {"scan", "read", "upsert", "clear", "update"}
    /\ pc' = "failed"
    /\ trail' = [trail EXCEPT !.raised_at = pc]
    /\ prev' = NoPrev
    /\ sched' = [sched EXCEPT !.phase = "stopped"]
    /\ UNCHANGED <<drive, store, job, frame, committed, events, calc, meta, cycles>>

\* A remote call of the job raises (the scan, the read of the sheet, the
\* connection, batch_clear or update): the except clause logs "Sync Failed".
Raise ==
    /\ pc \in {"scan", "read", "upsert", "clear", "update"}
    /\ pc' = "failed"
    /\ trail' = [trail EXCEPT !.raised_at = pc]
    /\ prev' = NoPrev
    /\ UNCHANGED <<drive, store, job, frame, committed, events, aux>>

\* sync_job returns; its locals are gone.
Return ==
    /\ pc \in {"done", "nodata", "failed"}
    /\ pc' = "idle"
    /\ drive_docs' = <<>>
    /\ existing_rows' = <<>>
    /\ documents' = <<>>
    /\ existing_records' = <<>>
    /\ rows_to_write' = <<>>
    /\ trail' = NoTrail
    /\ UNCHANGED <<drive, store, committed, prev, events, aux>>

\* ------------------------------------------------------- the dashboard
\* One element of changes / bulk_changes (app.py) or of documents
\* (demo_data_generator.py): timestamps are datetime.now().
change(l, s, n) ==
    [topic |-> DriveName(l), architect |-> DriveOwner(l), link |-> l,
     modified_time |-> DashboardNow, created_time |-> DashboardNow,
     status_override |-> s, notes |-> n]

\* The lists of at most MaxBatch changes, one per document at most.
ChangeLists(overrides, notes) ==
    {c \in UNION {[1..n -> {change(l, s, n2) :
                              l \in Links, s \in overrides, n2 \in notes}]
                  : n \in 1..MaxBatch} :
        \A i, j \in DOMAIN c : i # j => c[i].link # c[j].link}

\* "Update Edits" or "Apply to Selected": one whole call
\* upsert_documents(c) that completes (read, build rows, clear, update),
\* between two steps of the daemon.
Submit(c) ==
    /\ events < MaxEvents
    /\ store' = Rows(c, store)
    /\ committed' = store'
    /\ events' = events + 1
    /\ prev' = NoPrev
    /\ meta' = [meta EXCEPT !.worksheet = TRUE]
    /\ UNCHANGED <<drive, pc, job, frame, trail, sched, calc, cycles>>

\* ------------------------------------------------------------------ Next
Next ==
    \/ \E l \in Links : AddFile(l)
    \/ \E l \in Links : RemoveFile(l)
    \/ \E i \in DOMAIN store, s \in SheetStatuses, n \in NoteTexts : SheetEdit(i, s, n)
    \/ StartSync
    \/ ScanReviewFolder
    \/ GetAllDocuments
    \/ GetAllRecords
    \/ BatchClear
    \/ Update
    \/ Raise
    \/ Return
    \/ \E c \in ChangeLists(Overrides, {"fix it"}) : Submit(c)

Spec == Init /\ [][Next]_vars

\* ------------------------------------------- upsert_documents on its own
\* Any caller (sync_job, the dashboard, the demo seeding) calls
\* upsert_documents(c) on any worksheet content with one row per link.
SheetRows ==
    {[name |-> DriveName(l), owner |-> DriveOwner(l),
      created |-> FormatCell(DriveCreated), modified |-> FormatCell(DriveModified),
      status |-> s, link |-> l, notes |-> n] :
        l \in Links, s \in SheetStatuses, n \in NoteTexts}

Sheets ==
    {st \in UNION {[1..n -> SheetRows] : n \in 0..Cardinality(Links)} :
        \A i, j \in DOMAIN st : i # j => st[i].link # st[j].link}

InitUpsert ==
    /\ drive = [l \in Links |-> FALSE]
    /\ store \in Sheets
    /\ pc = "idle"
    /\ drive_docs = <<>>
    /\ existing_rows = <<>>
    /\ documents = <<>>
    /\ existing_records = <<>>
    /\ rows_to_write = <<>>
    /\ committed = store
    /\ prev = NoPrev
    /\ events = 0
    /\ trail = NoTrail
    /\ sched = NoSched
    /\ calc = NoCalc
    /\ meta = Sound
    /\ cycles = 0

\* The whole call: read the rows, build rows_to_write, clear, update.
UpsertDocuments(c) ==
    /\ pc = "idle"
    /\ documents' = c
    /\ existing_records' = store
    /\ rows_to_write' = Rows(c, store)
    /\ store' = IF c # <<>> THEN Rows(c, store) ELSE store
    /\ committed' = store'
    /\ pc' = "returned"
    /\ meta' = [meta EXCEPT !.worksheet = TRUE]
    /\ UNCHANGED <<drive, job, prev, events, trail, sched, calc, cycles>>

\* The caller goes on; the locals of the call are gone.
UpsertReturn ==
    /\ pc = "returned"
    /\ pc' = "idle"
    /\ documents' = <<>>
    /\ existing_records' = <<>>
    /\ rows_to_write' = <<>>
    /\ UNCHANGED <<drive, store, job, committed, prev, events, trail, aux>>

NextUpsert ==
    \/ \E c \in ChangeLists(Overrides \cup {None}, SubmittedNotes) : UpsertDocuments(c)
    \/ UpsertReturn

SpecUpsert == InitUpsert /\ [][NextUpsert]_vars

\* ------------------------------------------------ main and the scheduler
\* scheduler.add_job(sync_job, 'interval', minutes=interval_minutes) leaves
\* the job's max_instances at the scheduler's default.
max_instances == 1

\* The process starts: main has loaded the configuration.
InitSched ==
    /\ drive \in [Links -> BOOLEAN]
    /\ store = <<>>
    /\ pc = "idle"
    /\ drive_docs = <<>>
    /\ existing_rows = <<>>
    /\ documents = <<>>
    /\ existing_records = <<>>
    /\ rows_to_write = <<>>
    /\ committed = <<>>
    /\ prev = NoPrev
    /\ events = 0
    /\ trail = NoTrail
    /\ sched = [NoSched EXCEPT !.phase = "main"]
    /\ calc = NoCalc
    /\ meta = Sound
    /\ cycles = 0

\* As FirstRun, but main goes on to the scheduler without calling sync_job.
FirstRunDeferred ==
    /\ sched.phase = "main"
    /\ pc = "idle"
    /\ pc' = pc
    /\ sched' = [sched EXCEPT !.phase = "ready"]
    /\ UNCHANGED <<drive, store, job, frame, committed, prev, events, trail, calc, meta, cycles>>

\* sync_job() of main ("Run immediately on startup"), in the main thread.
FirstRun ==
    /\ sched.phase = "main"
    /\ pc = "idle"
    /\ pc' = "scan"
    /\ sched' = [sched EXCEPT !.phase = "first", !.running = @ + 1]
    /\ UNCHANGED <<drive, store, job, frame, committed, prev, events, trail, calc, meta, cycles>>

\* As JobReturn, but a tick that was skipped during the call is run now.
JobReturnRunsMissed ==
    /\ pc \in {"done", "nodata", "failed"}
    /\ pc' = IF sched.skipped > 0 THEN "scan" ELSE "idle"
    /\ drive_docs' = <<>>
    /\ existing_rows' = <<>>
    /\ documents' = <<>>
    /\ existing_records' = <<>>
    /\ rows_to_write' = <<>>
    /\ trail' = NoTrail
    /\ sched' = [sched EXCEPT
                    !.running = IF sched.skipped > 0 THEN @ ELSE @ - 1,
                    !.skipped = IF @ > 0 THEN @ - 1 ELSE @,
                    !.last = IF pc = "failed" THEN "Failed" ELSE "Succeeded",
                    !.phase = IF @ = "first" THEN "ready" ELSE @]
    /\ UNCHANGED <<drive, store, committed, prev, events, calc, meta, cycles>>

\* A call of sync_job returns, after "Sync Complete", "No data to process"
\* or "Sync Failed"; the first call returns into main.
JobReturn ==
    /\ pc \in {"done", "nodata", "failed"}
    /\ pc' = "idle"
    /\ drive_docs' = <<>>
    /\ existing_rows' = <<>>
    /\ documents' = <<>>
    /\ existing_records' = <<>>
    /\ rows_to_write' = <<>>
    /\ trail' = NoTrail
    /\ sched' = [sched EXCEPT
                    !.running = @ - 1,
                    !.last = IF pc = "failed" THEN "Failed" ELSE "Succeeded",
                    !.phase = IF @ = "first" THEN "ready" ELSE @]
    /\ UNCHANGED <<drive, store, committed, prev, events, calc, meta, cycles>>

\* scheduler = BlockingScheduler(); add_job(...); scheduler.start()
SchedulerStart ==
    /\ sched.phase = "ready"
    /\ sched' = [sched EXCEPT !.phase = "loop"]
    /\ UNCHANGED <<drive, store, pc, job, frame, committed, prev, events, trail, calc, meta, cycles>>

\* As Tick, but the executor runs the job whatever is in progress.
TickUnlimited ==
    /\ sched.phase = "loop"
    /\ sched.ticks < MaxTicks
    /\ pc' = "scan"
    /\ sched' = [sched EXCEPT !.ticks = @ + 1, !.running = @ + 1]
    /\ UNCHANGED <<drive, store, job, frame, committed, prev, events, trail, calc, meta, cycles>>

\* The interval elapses: the scheduler submits sync_job to its executor,
\* which runs it unless max_instances calls are in progress; a run that is
\* refused is logged as skipped and the next fire time is one interval on.
Tick ==
    /\ sched.phase = "loop"
    /\ sched.ticks < MaxTicks
    /\ IF sched.running < max_instances
       THEN /\ pc' = "scan"
            /\ sched' = [sched EXCEPT !.ticks = @ + 1, !.running = @ + 1]
       ELSE /\ pc' = pc
            /\ sched' = [sched EXCEPT !.ticks = @ + 1, !.skipped = @ + 1]
    /\ UNCHANGED <<drive, store, job, frame, committed, prev, events, trail, calc, meta, cycles>>

\* KeyboardInterrupt or SystemExit: scheduler.start() ends, main logs
\* "Stopping daemon..."; a call in progress runs to its end.
Interrupt ==
    /\ sched.phase = "loop"
    /\ sched' = [sched EXCEPT !.phase = "stopped"]
    /\ UNCHANGED <<drive, store, pc, job, frame, committed, prev, events, trail, calc, meta, cycles>>

NextSched ==
    \/ FirstRun
    \/ ScanReviewFolder
    \/ GetAllDocuments
    \/ GetAllRecords
    \/ BatchClear
    \/ Update
    \/ Raise
    \/ JobReturn
    \/ SchedulerStart
    \/ Tick
    \/ Interrupt

SpecSched == InitSched /\ [][NextSched]_vars

\* ------------------------------------------------- sync_job left alone
\* From any worksheet content with one row per link and any folder content,
\* nothing but the daemon's cycles happens: the folder does not change and
\* nobody edits the sheet.
InitQuiet ==
    /\ drive \in [Links -> BOOLEAN]
    /\ store \in Sheets
    /\ pc = "idle"
    /\ drive_docs = <<>>
    /\ existing_rows = <<>>
    /\ documents = <<>>
    /\ existing_records = <<>>
    /\ rows_to_write = <<>>
    /\ committed = store
    /\ prev = NoPrev
    /\ events = 0
    /\ trail = NoTrail
    /\ sched = NoSched
    /\ calc = NoCalc
    /\ meta = Sound
    /\ cycles = 0

\* A remote call of the job raises, as Raise; Drive and Sheets have at most
\* MaxEvents such outages in one run.
Outage ==
    /\ events < MaxEvents
    /\ pc \in {"scan", "read", "upsert", "clear", "update"}
    /\ pc' = "failed"
    /\ trail' = [trail EXCEPT !.raised_at = pc]
    /\ prev' = NoPrev
    /\ events' = events + 1
    /\ UNCHANGED <<drive, store, job, frame, committed, aux>>

\* sync_job returns to the scheduler, as Return; the returned calls are
\* counted up to MaxCycles.
QuietReturn ==
    /\ pc \in {"done", "nodata", "failed"}
    /\ pc' = "idle"
    /\ drive_docs' = <<>>
    /\ existing_rows' = <<>>
    /\ documents' = <<>>
    /\ existing_records' = <<>>
    /\ rows_to_write' = <<>>
    /\ trail' = NoTrail
    /\ cycles' = IF cycles < MaxCycles THEN cycles + 1 ELSE cycles
    /\ UNCHANGED <<drive, store, committed, prev, events, sched, calc, meta>>

NextQuiet ==
    \/ StartSync
    \/ ScanReviewFolder
    \/ GetAllDocuments
    \/ GetAllRecords
    \/ BatchClear
    \/ Update
    \/ Outage
    \/ QuietReturn

\* The scheduler keeps calling sync_job, and a call that can go on does go
\* on: once the outages are over, every remote call succeeds.
FairQuiet ==
    /\ WF_vars(StartSync)
    /\ WF_vars(ScanReviewFolder)
    /\ WF_vars(GetAllDocuments)
    /\ WF_vars(GetAllRecords)
    /\ WF_vars(BatchClear)
    /\ WF_vars(Update)
    /\ WF_vars(QuietReturn)

SpecQuiet == InitQuiet /\ [][NextQuiet]_vars /\ FairQuiet

\* ------------------------------------------------------ priority_engine
\* Instants are counted in ticks of 1/TicksPerDay day.
\* now = datetime.now(timezone.utc), read inside calculate_priority.
Now == Aware(MaxDays * TicksPerDay)

Times == 0 .. (MaxDays + MaxAhead) * TicksPerDay
Timestamps == {[t |-> t, tz |-> z] : t \in Times, z \in BOOLEAN}
ScoreInputs == (0 - MaxDays) .. (2 * MaxDays)

\* if x.tzinfo is None: x = x.replace(tzinfo=timezone.utc)
ToUtc(ts) == IF ts.tz THEN ts ELSE [ts EXCEPT !.tz = TRUE]

\* (a - b).days of two offset-aware datetimes: whole days, rounded down.
DaysBetween(a, b) == (a.t - b.t) \div TicksPerDay

\* Variant: max(0, ...) is left out.
calculate_priority_unclamped(created_date, modified_date, now) ==
    LET created == ToUtc(created_date)
        modified == ToUtc(modified_date)
        age_days == DaysBetween(now, created)
        latency_days == DaysBetween(now, modified)
    IN  age_days + latency_days

\* Variant: the latency is taken from the creation date.
calculate_priority_latency_of_created(created_date, modified_date, now) ==
    LET created == ToUtc(created_date)
        modified == ToUtc(modified_date)
        age_days == DaysBetween(now, created)
        latency_days == DaysBetween(now, created)
        score == age_days + latency_days
    IN  IF score > 0 THEN score ELSE 0

calculate_priority(created_date, modified_date, now) ==
    LET created == ToUtc(created_date)
        modified == ToUtc(modified_date)
        age_days == DaysBetween(now, created)
        latency_days == DaysBetween(now, modified)
        score == age_days + latency_days
    IN  IF score > 0 THEN score ELSE 0

\* Variant: the tiers start above 10 and above 5.
get_urgency_level_strict(score) ==
    IF score > 10 THEN "CRITICAL"
    ELSE IF score > 5 THEN "HIGH"
    ELSE "NORMAL"

\* The labels, without their coloured-circle prefix.
get_urgency_level(score) ==
    IF score >= 10 THEN "CRITICAL"
    ELSE IF score >= 5 THEN "HIGH"
    ELSE "NORMAL"

\* Nothing but calls into the priority engine happens.
InitPriority ==
    /\ drive = [l \in Links |-> FALSE]
    /\ store = <<>>
    /\ pc = "idle"
    /\ drive_docs = <<>>
    /\ existing_rows = <<>>
    /\ documents = <<>>
    /\ existing_records = <<>>
    /\ rows_to_write = <<>>
    /\ committed = <<>>
    /\ prev = NoPrev
    /\ events = 0
    /\ trail = NoTrail
    /\ sched = NoSched
    /\ calc = NoCalc
    /\ meta = Sound
    /\ cycles = 0

\* calculate_priority(c, m) is called and returns.
CalculatePriority(c, m) ==
    /\ calc.op = "none"
    /\ calc' = [op |-> "calculate_priority", created |-> c, modified |-> m,
                now |-> Now, result |-> calculate_priority(c, m, Now)]
    /\ UNCHANGED <<drive, store, pc, job, frame, committed, prev, events, trail, sched, meta, cycles>>

\* get_urgency_level(s) is called and returns.
GetUrgencyLevel(s) ==
    /\ calc.op = "none"
    /\ calc' = [op |-> "get_urgency_level", score |-> s,
                result |-> get_urgency_level(s)]
    /\ UNCHANGED <<drive, store, pc, job, frame, committed, prev, events, trail, sched, meta, cycles>>

\* The caller has used the result.
CalcDone ==
    /\ calc.op # "none"
    /\ calc' = NoCalc
    /\ UNCHANGED <<drive, store, pc, job, frame, committed, prev, events, trail, sched, meta, cycles>>

\* A caller calls one function at a time, with any arguments.
NextPriority ==
    \/ calc.op = "none" /\ \E c \in Timestamps, m \in Timestamps : CalculatePriority(c, m)
    \/ calc.op = "none" /\ \E s \in ScoreInputs : GetUrgencyLevel(s)
    \/ CalcDone

SpecPriority == InitPriority /\ [][NextPriority]_vars

\* ------------------------------------------ enrich_documents_with_priority
\* The 'Created Date' and 'Last Modified' cells of a row: whole days, printed
\* without offset.
CellTimes == {Naive(d * TicksPerDay) : d \in 0 .. MaxSpan}
FrameRows == {[created |-> c, modified |-> m] : c \in CellTimes, m \in CellTimes}
DataFrames == UNION {[1..n -> FrameRows] : n \in 0 .. MaxRows}

\* The instants of the clock while a DataFrame is processed: from the newest
\* timestamp on, for two days.
ClockTimes == (MaxSpan * TicksPerDay) .. ((MaxSpan + 2) * TicksPerDay)

get_color(score) ==
    IF score >= 10 THEN "#ffcccc"
    ELSE IF score >= 5 THEN "#fff4cc"
    ELSE "#ccffcc"

\* The row of index i with its three new columns.
Enriched(df, scores, i) ==
    [index |-> i, created |-> df[i].created, modified |-> df[i].modified,
     priority_score |-> scores[i],
     urgency_level |-> get_urgency_level(scores[i]),
     urgency_color |-> get_color(scores[i])]

Orders(n) == {p \in [1..n -> 1..n] : \A i, j \in 1..n : i # j => p[i] # p[j]}

\* Variant: ascending=True.
sort_values_ascending(df, scores) ==
    {[k \in DOMAIN df |-> Enriched(df, scores, p[k])] : p \in
        {q \in Orders(Len(df)) :
            \A i, j \in DOMAIN df : i < j => scores[q[i]] <= scores[q[j]]}}

\* df.sort_values(by='priority_score', ascending=False): the rows by score,
\* highest first; rows of equal score in any order (the sort is not stable).
sort_values(df, scores) ==
    {[k \in DOMAIN df |-> Enriched(df, scores, p[k])] : p \in
        {q \in Orders(Len(df)) :
            \A i, j \in DOMAIN df : i < j => scores[q[i]] >= scores[q[j]]}}

\* enrich_documents_with_priority(df) is called at instant t; an empty
\* DataFrame is returned as it is.
EnrichStart(df, t) ==
    /\ calc.op = "none"
    /\ calc' = [op |-> "enrich_documents_with_priority", df |-> df, clock |-> t,
                scores |-> <<>>, out |-> <<>>, done |-> (df = <<>>)]
    /\ UNCHANGED <<drive, store, pc, job, frame, committed, prev, events, trail, sched, meta, cycles>>

\* df.apply calls calculate_priority for the next row, at instant t of the
\* clock (which does not run backwards); the call reads now itself.
ScoreRow(t) ==
    /\ calc.op = "enrich_documents_with_priority"
    /\ ~calc.done
    /\ Len(calc.scores) < Len(calc.df)
    /\ t >= calc.clock
    /\ LET row == calc.df[Len(calc.scores) + 1] IN
        calc' = [calc EXCEPT
                    !.clock = t,
                    !.scores = Append(@, calculate_priority(row.created, row.modified, Aware(t)))]
    /\ UNCHANGED <<drive, store, pc, job, frame, committed, prev, events, trail, sched, meta, cycles>>

\* The urgency columns, the sort, and the return of the DataFrame.
EnrichSort ==
    /\ calc.op = "enrich_documents_with_priority"
    /\ ~calc.done
    /\ Len(calc.scores) = Len(calc.df)
    /\ \E out \in sort_values(calc.df, calc.scores) :
        calc' = [calc EXCEPT !.out = out, !.done = TRUE]
    /\ UNCHANGED <<drive, store, pc, job, frame, committed, prev, events, trail, sched, meta, cycles>>

\* The caller has the DataFrame.
EnrichReturn ==
    /\ calc.op = "enrich_documents_with_priority"
    /\ calc.done
    /\ calc' = NoCalc
    /\ UNCHANGED <<drive, store, pc, job, frame, committed, prev, events, trail, sched, meta, cycles>>

NextEnrich ==
    \/ calc.op = "none" /\ \E df \in DataFrames, t \in ClockTimes : EnrichStart(df, t)
    \/ \E t \in ClockTimes : ScoreRow(t)
    \/ EnrichSort
    \/ EnrichReturn

SpecEnrich == InitPriority /\ [][NextEnrich]_vars

\* --------------------------------------------------------- parse_filename
\* A display name is a sequence of characters: a letter, the space, and the
\* four characters the function looks at (no path separator).
Chars == {"a", " ", "-", ".", "[", "]"}
Names == UNION {[1..n -> Chars] : n \in 0 .. MaxNameLen}
Unknown == <<"U", "n", "k", "n", "o", "w", "n">>

\* os.path.splitext(p)[0]: p up to its last '.', unless only '.' characters
\* precede that one.
splitext_root(p) ==
    LET dots == {i \in DOMAIN p : p[i] = "."} IN
    IF dots = {} THEN p
    ELSE LET dotIndex == CHOOSE i \in dots : \A j \in dots : j <= i IN
         IF \E k \in 1 .. (dotIndex - 1) : p[k] # "."
         THEN SubSeq(p, 1, dotIndex - 1)
         ELSE p

\* s.split(' - ')
RECURSIVE split(_)
split(s) ==
    LET hits == {i \in 1 .. (Len(s) - 2) : SubSeq(s, i, i + 2) = <<" ", "-", " ">>} IN
    IF hits = {} THEN <<s>>
    ELSE LET i == CHOOSE h \in hits : \A g \in hits : h <= g IN
         <<SubSeq(s, 1, i - 1)>> \o split(SubSeq(s, i + 3, Len(s)))

\* s.strip()
RECURSIVE strip(_)
strip(s) ==
    IF s = <<>> THEN s
    ELSE IF Head(s) = " " THEN strip(Tail(s))
    ELSE IF s[Len(s)] = " " THEN strip(SubSeq(s, 1, Len(s) - 1))
    ELSE s

\* s.replace('[', '').replace(']', '')
IsNotBracket(c) == c \notin {"[", "]"}
unbracket(s) == SelectSeq(s, IsNotBracket)

parse_filename(filename) ==
    LET name == splitext_root(filename)
        parts == split(name)
    IN  IF Len(parts) >= 2
        THEN [topic |-> strip(parts[1]),
              architect |-> unbracket(strip(parts[Len(parts)]))]
        ELSE [topic |-> name, architect |-> Unknown]

\* parse_filename(n) is called and returns.
ParseFilename(n) ==
    /\ calc.op = "none"
    /\ calc' = [op |-> "parse_filename", filename |-> n,
                result |-> parse_filename(n)]
    /\ UNCHANGED <<drive, store, pc, job, frame, committed, prev, events, trail, sched, meta, cycles>>

NextParse ==
    \/ calc.op = "none" /\ \E n \in Names : ParseFilename(n)
    \/ CalcDone

SpecParse == InitPriority /\ [][NextParse]_vars

\* ------------------------------------- sync_job on faulty or fresh services
\* Some files of Drive carry a createdTime or modifiedTime that
\* parser.parse rejects; the spreadsheet may lack the "Active Reviews"
\* worksheet. No call fails for another reason, nobody else acts.
Conditions == [bad : SUBSET Links, worksheet : BOOLEAN]

InitFresh ==
    /\ drive \in [Links -> BOOLEAN]
    /\ meta \in Conditions
    /\ store \in IF meta.worksheet THEN Sheets ELSE {<<>>}
    /\ pc = "idle"
    /\ drive_docs = <<>>
    /\ existing_rows = <<>>
    /\ documents = <<>>
    /\ existing_records = <<>>
    /\ rows_to_write = <<>>
    /\ committed = store
    /\ prev = NoPrev
    /\ events = 0
    /\ trail = NoTrail
    /\ sched = NoSched
    /\ calc = NoCalc
    /\ cycles = 0

\* parser.parse(item['modifiedTime']) or parser.parse(item['createdTime'])
\* raises inside scan_review_folder; sync_job's except clause logs
\* "Sync Failed".
ParseRaises ==
    /\ pc = "scan"
    /\ InFolder(drive) \cap meta.bad # {}
    /\ pc' = "failed"
    /\ trail' = [trail EXCEPT !.raised_at = pc]
    /\ prev' = NoPrev
    /\ UNCHANGED <<drive, store, job, frame, committed, events, aux>>

\* sh.worksheet("Active Reviews") of get_all_documents raises
\* WorksheetNotFound; sync_job's except clause logs "Sync Failed".
WorksheetNotFound ==
    /\ pc = "read"
    /\ ~meta.worksheet
    /\ pc' = "failed"
    /\ trail' = [trail EXCEPT !.raised_at = pc]
    /\ prev' = NoPrev
    /\ UNCHANGED <<drive, store, job, frame, committed, events, aux>>

NextFresh ==
    \/ StartSync
    \/ ScanReviewFolder
    \/ ParseRaises
    \/ GetAllDocuments
    \/ WorksheetNotFound
    \/ GetAllRecords
    \/ BatchClear
    \/ Update
    \/ Return

SpecFresh == InitFresh /\ [][NextFresh]_vars

\* --------------------------------------- upsert_documents, empty links
\* Rows whose 'Google Doc Link' cell is empty (typed in by hand, or the cell
\* was cleared), told apart by their names, beside rows of Links.
LooseNames == {"Draft 1", "Draft 2"}
LooseRows ==
    {[name |-> nm, owner |-> "Unknown",
      created |-> FormatCell(DashboardNow), modified |-> FormatCell(DashboardNow),
      status |-> st, link |-> "", notes |-> n] :
        nm \in LooseNames, st \in SheetStatuses, n \in NoteTexts}

\* Worksheets of at most Cardinality(Links) rows, one row per non-empty
\* link and per name.
LooseSheets ==
    {st \in UNION {[1..n -> SheetRows \cup LooseRows] : n \in 0 .. Cardinality(Links)} :
        \A i, j \in DOMAIN st : i # j =>
            /\ st[i].name # st[j].name
            /\ st[i].link = "" \/ st[i].link # st[j].link}

\* The change the dashboard builds from a displayed row with an empty link.
loose_change(nm, s, n) ==
    [topic |-> nm, architect |-> "Unknown", link |-> "",
     modified_time |-> DashboardNow, created_time |-> DashboardNow,
     status_override |-> s, notes |-> n]

LooseChangeLists ==
    {<<loose_change(nm, s, n)>> : nm \in LooseNames, s \in Overrides, n \in SubmittedNotes}
    \cup {<<change(l, s, n)>> : l \in Links, s \in Overrides, n \in SubmittedNotes}

InitIdentity ==
    /\ drive = [l \in Links |-> FALSE]
    /\ store \in LooseSheets
    /\ pc = "idle"
    /\ drive_docs = <<>>
    /\ existing_rows = <<>>
    /\ documents = <<>>
    /\ existing_records = <<>>
    /\ rows_to_write = <<>>
    /\ committed = store
    /\ prev = NoPrev
    /\ events = 0
    /\ trail = NoTrail
    /\ sched = NoSched
    /\ calc = NoCalc
    /\ meta = Sound
    /\ cycles = 0

NextIdentity ==
    \/ pc = "idle" /\ \E c \in LooseChangeLists : UpsertDocuments(c)
    \/ UpsertReturn

SpecIdentity == InitIdentity /\ [][NextIdentity]_vars

\* ------------------------------------------------- a large review folder
\* The review folder holds about one page of documents: pageSize of them at
\* first, and more are moved in between two cycles of the daemon.
FileLink(i) == ToString(i)
FolderLinks == {FileLink(i) : i \in 1..(pageSize + MaxOver)}

\* The documents of S by number.
ByNumber(S) ==
    LET I == {i \in 1..(pageSize + MaxOver) : FileLink(i) \in S} IN
    [k \in 1..Cardinality(I) |->
        FileLink(CHOOSE i \in I : Cardinality({j \in I : j < i}) = k - 1)]

\* Orders in which files().list returns a large folder (no orderBy is
\* given): by number, starting at one of the first documents and wrapping
\* around.
Rotations(S) ==
    LET base == ByNumber(S)
        n == Len(base) IN
    {[k \in 1..n |-> base[((k + r - 1) % n) + 1]] :
        r \in {x \in 0..MaxShift : x < n}}

InitPage ==
    /\ drive = [l \in FolderLinks |-> l \in {FileLink(i) : i \in 1..pageSize}]
    /\ store = <<>>
    /\ pc = "idle"
    /\ drive_docs = <<>>
    /\ existing_rows = <<>>
    /\ documents = <<>>
    /\ existing_records = <<>>
    /\ rows_to_write = <<>>
    /\ committed = <<>>
    /\ prev = NoPrev
    /\ events = 0
    /\ trail = NoTrail
    /\ sched = NoSched
    /\ calc = NoCalc
    /\ meta = Sound
    /\ cycles = 0

\* One more document is moved into the folder while the daemon sleeps.
PageAddFile(l) ==
    /\ pc = "idle"
    /\ ~drive[l]
    /\ drive' = [drive EXCEPT ![l] = TRUE]
    /\ prev' = NoPrev
    /\ UNCHANGED <<store, pc, job, frame, committed, events, trail, aux>>

\* The scheduler calls sync_job(), MaxCycles times in one run.
PageStartSync ==
    /\ cycles < MaxCycles
    /\ StartSync

\* drive_docs = scan_review_folder() on the large folder.
PageScan ==
    /\ pc = "scan"
    /\ \E docs \in scan_results(drive, Rotations(InFolder(drive))) :
            drive_docs' = docs
    /\ pc' = "read"
    /\ UNCHANGED <<drive, store, existing_rows, frame, committed, prev, events, trail, aux>>

NextPage ==
    \/ pc = "idle" /\ \E l \in FolderLinks : PageAddFile(l)
    \/ PageStartSync
    \/ PageScan
    \/ GetAllDocuments
    \/ GetAllRecords
    \/ BatchClear
    \/ Update
    \/ QuietReturn

SpecPage == InitPage /\ [][NextPage]_vars

\* ================================================================ claims
HasRow(rows, l) == \E i \in DOMAIN rows : rows[i].link = l
RowOf(rows, l) == rows[CHOOSE i \in DOMAIN rows : rows[i].link = l]
OneRowPerLink(rows) == \A i, j \in DOMAIN rows : i # j => rows[i].link # rows[j].link
\* The step in which sync_job's write completes.
CycleWrites == pc = "update" /\ pc' = "done"

\* C1 - Preservation: when a cycle writes, every scanned document (no status
\* override) whose link had a row when the cycle read the sheet gets a row
\* with that row's status and notes.
C1_Preservation ==
    [][CycleWrites =>
        \A i \in DOMAIN drive_docs :
            LET l == drive_docs[i].link IN
            (drive_docs[i].status_override = None /\ HasRow(existing_records, l)) =>
                /\ HasRow(store', l)
                /\ RowOf(store', l).status = RowOf(existing_records, l).status
                /\ RowOf(store', l).notes = RowOf(existing_records, l).notes]_vars

C1_Witness ==
    /\ pc = "done"
    /\ \E i \in DOMAIN drive_docs :
        LET l == drive_docs[i].link IN
        /\ HasRow(existing_records, l)
        /\ RowOf(existing_records, l).status = "Approved"
        /\ RowOf(existing_records, l).notes = "looks good"
        /\ HasRow(store, l)
        /\ RowOf(store, l).status = "Approved"
        /\ RowOf(store, l).notes = "looks good"

\* C2 - Absence triggers archival: when a cycle writes, every row it read
\* with a status other than Archived and a link that is not in the scan has
\* a row in the sheet with status Archived and the same name, owner, created
\* and modified dates, and the same notes if nobody changed the row between
\* the cycle's two reads of the sheet.
C2_AbsenceArchives ==
    [][CycleWrites =>
        \A k \in DOMAIN existing_rows :
            LET r == existing_rows[k] IN
            (r.status # "Archived" /\ r.link \notin drive_links(drive_docs)) =>
                /\ HasRow(store', r.link)
                /\ RowOf(store', r.link).status = "Archived"
                /\ RowOf(store', r.link).name = r.name
                /\ RowOf(store', r.link).owner = r.owner
                /\ RowOf(store', r.link).created = r.created
                /\ RowOf(store', r.link).modified = r.modified
                /\ (HasRow(existing_records, r.link)
                      /\ RowOf(existing_records, r.link) = r)
                    => RowOf(store', r.link).notes = r.notes]_vars

C2_Witness ==
    /\ pc = "done"
    /\ \E k \in DOMAIN existing_rows :
        LET r == existing_rows[k] IN
        /\ r.status = "Approved"
        /\ r.notes = "looks good"
        /\ r.link \notin drive_links(drive_docs)
        /\ HasRow(store, r.link)
        /\ RowOf(store, r.link) = [r EXCEPT !.status = "Archived"]

\* C3 - No physical deletion: when a cycle writes, every link that had a row
\* when the cycle read the sheet still has a row.
C3_NoPhysicalDeletion ==
    [][CycleWrites =>
        \A k \in DOMAIN existing_rows : HasRow(store', existing_rows[k].link)]_vars

\* C4 - Idempotence: a cycle that follows a completed cycle, with the same
\* scan and nothing happening in between, leaves the sheet as the first
\* cycle left it.
C4_Idempotence ==
    [][(/\ CycleWrites
        /\ prev.valid
        /\ prev.scan = drive_docs
        /\ existing_rows = prev.result
        /\ existing_records = prev.result) => store' = prev.result]_vars

\* C5 - Reappearance reverses archival: a document submitted to
\* upsert_documents with override Pending whose stored row is Archived is
\* written with status Pending.
C5_ReappearanceReverses ==
    pc = "returned" =>
        \A i \in DOMAIN documents :
            LET l == documents[i].link IN
            (/\ HasRow(existing_records, l)
             /\ RowOf(existing_records, l).status = "Archived"
             /\ documents[i].status_override = "Pending") =>
                rows_to_write[i].status = "Pending"

\* C6 - First creation: a submitted document whose link has no row is
\* written with the override as status (Pending without one) and with the
\* supplied notes (empty without).
C6_FirstCreation ==
    pc = "returned" =>
        \A i \in DOMAIN documents :
            ~HasRow(existing_records, documents[i].link) =>
                /\ rows_to_write[i].status =
                      (IF documents[i].status_override # None
                       THEN documents[i].status_override ELSE "Pending")
                /\ rows_to_write[i].notes =
                      (IF documents[i].notes # None THEN documents[i].notes ELSE "")

\* C7 - Override does not clobber manual state: a submitted document with an
\* override other than Archived whose link has a row leaves the status and
\* notes of that row as they were.
C7_OverrideKeepsManualState ==
    pc = "returned" =>
        \A i \in DOMAIN documents :
            LET l == documents[i].link IN
            (/\ HasRow(existing_records, l)
             /\ documents[i].status_override \in Overrides \ {"Archived"}) =>
                /\ HasRow(store, l)
                /\ RowOf(store, l).status = RowOf(existing_records, l).status
                /\ RowOf(store, l).notes = RowOf(existing_records, l).notes

C7_Witness ==
    /\ pc = "returned"
    /\ \E i \in DOMAIN documents :
        LET l == documents[i].link IN
        /\ documents[i].status_override = "Pending"
        /\ documents[i].notes = "fix it"
        /\ HasRow(existing_records, l)
        /\ RowOf(existing_records, l).status = "Approved"
        /\ RowOf(existing_records, l).notes = "looks good"
        /\ RowOf(store, l).status = "Approved"
        /\ RowOf(store, l).notes = "looks good"

\* C8 - Provenance of Archived: a row a cycle writes is Archived only if the
\* stored row of its link was Archived, or the link was not in the scan, or
\* the document carried the override Archived; a new document without
\* override is not written as Archived.
C8_ArchivedProvenance ==
    pc \in {"clear", "update", "done"} =>
        \A i \in DOMAIN rows_to_write :
            LET l == documents[i].link IN
            /\ rows_to_write[i].status = "Archived" =>
                \/ HasRow(existing_records, l)
                     /\ RowOf(existing_records, l).status = "Archived"
                \/ l \notin drive_links(drive_docs)
                \/ documents[i].status_override = "Archived"
            /\ (~HasRow(existing_records, l) /\ documents[i].status_override = None)
                => rows_to_write[i].status # "Archived"

C8_Witness ==
    /\ pc = "done"
    /\ store = rows_to_write
    /\ \E i, j \in DOMAIN rows_to_write :
        /\ rows_to_write[i].status = "Archived"
        /\ documents[i].link \notin drive_links(drive_docs)
        /\ ~HasRow(existing_records, documents[j].link)
        /\ documents[j].status_override = None
        /\ rows_to_write[j].status = "Pending"

\* C9 - Identity uniqueness: the sheet never holds two rows of one link, and
\* the list a cycle hands to upsert_documents and the rows it writes have at
\* most one entry per link (no link is both scanned and archived as missing).
C9_IdentityUnique ==
    /\ OneRowPerLink(store)
    /\ (OneRowPerLink(drive_docs) /\ OneRowPerLink(existing_rows)) =>
          /\ OneRowPerLink(documents)
          /\ OneRowPerLink(rows_to_write)

C9_Witness ==
    /\ pc = "done"
    /\ store = rows_to_write
    /\ drive_docs # <<>>
    /\ Len(documents) > Len(drive_docs)
    /\ \E k \in DOMAIN existing_rows :
          existing_rows[k].link \in drive_links(drive_docs)

\* C10 - No partial state on write failure: when a cycle has failed, the
\* rows of the sheet are those of the last completed write or edit.
C10_NoPartialState ==
    pc = "failed" => store = committed


\* C11 - When scan_review_folder or get_all_documents raises, the cycle is
\* over as failed: it never reaches upsert_documents, builds no rows, clears
\* nothing and writes nothing.
C11_AbortOnUnavailable ==
    trail.raised_at \in {"scan", "read"} =>
        /\ pc = "failed"
        /\ ~trail.wrote
        /\ trail.cleared = <<>>
        /\ documents = <<>>
        /\ rows_to_write = <<>>

\* The read of the sheet raised after a scan that found documents, with
\* rows in the sheet.
C11_Witness ==
    /\ pc = "failed"
    /\ trail.raised_at = "read"
    /\ drive_docs # <<>>
    /\ store # <<>>

\* C12 - When the write of a cycle completes, every row that batch_clear
\* removed and that is written back still has the status and notes it had
\* when it was removed (whatever a reviewer typed after get_all_records),
\* unless the document is missing from the scan and is written as Archived.
C12_EditsNeverLost ==
    [][CycleWrites =>
        \A i \in DOMAIN trail.cleared :
            LET r == trail.cleared[i] IN
            HasRow(store', r.link) =>
                LET w == RowOf(store', r.link) IN
                \/ r.link \notin drive_links(drive_docs) /\ w.status = "Archived"
                \/ w.status = r.status /\ w.notes = r.notes]_vars


\* C13 - A call that raises inside sync_job is caught there and leaves main
\* and the scheduler as they are; the failed cycle only returns to idle, as
\* Failed, without starting again by itself; and the next tick that fires
\* while idle after a Failed cycle starts a new cycle.
C13_FailureDoesNotStop ==
    [][/\ (pc # "failed" /\ pc' = "failed") => sched' = sched
       /\ (pc = "failed" /\ pc' # "failed") =>
            /\ pc' = "idle"
            /\ sched'.last = "Failed"
            /\ sched'.ticks = sched.ticks
            /\ sched'.running = sched.running - 1
       /\ (sched.last = "Failed" /\ pc = "idle" /\ sched.phase = "loop"
             /\ sched'.ticks > sched.ticks) => pc' = "scan"]_vars

\* A tick has started a new cycle after a cycle that failed.
C13_Witness ==
    /\ sched.last = "Failed"
    /\ sched.ticks >= 1
    /\ pc = "scan"

\* C14 - At most one call of sync_job is in progress at any time, and one is
\* in progress exactly while the job is not idle.
C14_NonOverlap ==
    /\ sched.running <= 1
    /\ (sched.running = 1) <=> (pc # "idle")

\* A tick fired while a cycle was in progress and was skipped.
C14_Witness ==
    /\ sched.skipped >= 1
    /\ sched.running = 1
    /\ pc \in {"scan", "read", "upsert", "clear", "update"}

\* C15 - A cycle starts only in the step of a tick that is not skipped (or
\* as the first run of main); a skipped tick stays skipped, and the end of a
\* cycle starts nothing.
C15_SkippedNotQueued ==
    [][/\ (pc # "scan" /\ pc' = "scan") =>
            \/ sched.phase = "main"
            \/ /\ pc = "idle"
               /\ sched'.ticks = sched.ticks + 1
               /\ sched'.skipped = sched.skipped
       /\ sched'.skipped >= sched.skipped
       /\ pc \in {"done", "nodata", "failed"} => pc' \in {pc, "idle"}]_vars

\* A cycle has finished after a tick was skipped, and the job is idle.
C15_Witness ==
    /\ sched.skipped >= 1
    /\ sched.phase = "loop"
    /\ pc = "idle"
    /\ sched.running = 0

\* C16 - No tick fires before the first call of sync_job has returned as
\* Succeeded or Failed; that call is in progress from the first step of main
\* until then.
C16_ImmediateFirstRun ==
    /\ sched.phase \in {"main", "first", "ready"} => sched.ticks = 0
    /\ sched.phase \in {"ready", "loop", "stopped"} => sched.last \in {"Succeeded", "Failed"}
    /\ sched.phase = "first" => pc # "idle" /\ sched.running = 1

\* The first run has written the sheet and returned; the scheduler is not
\* started yet.
C16_Witness ==
    /\ sched.phase = "ready"
    /\ sched.last = "Succeeded"
    /\ store # <<>>


\* The sheet holds exactly one row for every document of the folder, and
\* every other row is Archived.
Converged ==
    /\ \A l \in InFolder(drive) :
            Cardinality({i \in DOMAIN store : store[i].link = l}) = 1
    /\ \A i \in DOMAIN store :
            store[i].link \notin InFolder(drive) => store[i].status = "Archived"

\* C17 - With an unchanging folder, no edits, and cycles that keep running
\* and whose calls succeed in the end, from some time on the sheet always
\* holds exactly one row per scanned document and only Archived rows
\* otherwise.
C17_Convergence == <>[]Converged


\* floor_days(x): the whole number d of days with d days <= x < d + 1 days,
\* for a span of x ticks.
FloorDays(x) ==
    CHOOSE d \in (0 - (MaxDays + MaxAhead + 1)) .. (MaxDays + MaxAhead + 1) :
        d * TicksPerDay <= x /\ x < (d + 1) * TicksPerDay

\* floor_days(now - created) + floor_days(now - modified) of the last call.
DaySum == FloorDays(calc.now.t - calc.created.t) + FloorDays(calc.now.t - calc.modified.t)

\* C18 - For every call with modified >= created, the score is the sum of
\* the two floored day counts, and that sum is not negative.
C18_ScoreIsSum ==
    (calc.op = "calculate_priority" /\ calc.modified.t >= calc.created.t) =>
        /\ calc.result = DaySum
        /\ DaySum >= 0

\* C18 (amended) - For every call with created <= modified <= now, the score
\* is the sum of the two floored day counts, and that sum is not negative.
C18_ScoreIsSumUpToNow ==
    (calc.op = "calculate_priority" /\ calc.modified.t >= calc.created.t
        /\ calc.modified.t <= calc.now.t) =>
        /\ calc.result = DaySum
        /\ DaySum >= 0

\* A call with created < modified < now, neither a whole number of days ago,
\* one of them without offset.
C18_Witness ==
    /\ calc.op = "calculate_priority"
    /\ calc.created.t < calc.modified.t
    /\ calc.modified.t < calc.now.t
    /\ (calc.now.t - calc.created.t) % TicksPerDay # 0
    /\ (calc.now.t - calc.modified.t) % TicksPerDay # 0
    /\ ~calc.created.tz
    /\ calc.result > 0

\* (age, latency) in whole days and the expected score, of test_priority.py.
TestScores == {<<1, 0, 1>>, <<4, 2, 6>>, <<10, 5, 15>>, <<30, 1, 31>>}

\* C19 - For every pair of timestamps the score is max(0, sum of the two
\* floored day counts), a natural number; documents aged (1,0), (4,2),
\* (10,5), (30,1) whole days score 1, 6, 15, 31.
C19_ScoreClamped ==
    calc.op = "calculate_priority" =>
        /\ calc.result \in Nat
        /\ DaySum >= 0 => calc.result = DaySum
        /\ DaySum < 0 => calc.result = 0
        /\ \A c \in TestScores :
            (/\ calc.created.t = calc.now.t - c[1] * TicksPerDay
             /\ calc.modified.t = calc.now.t - c[2] * TicksPerDay)
            => calc.result = c[3]

\* A call with a creation time later than now, whose day sum is negative.
C19_Witness ==
    /\ calc.op = "calculate_priority"
    /\ calc.created.t > calc.now.t
    /\ DaySum < 0
    /\ calc.result = 0

\* C20 - Every score has exactly one tier: CRITICAL iff s >= 10, HIGH iff
\* 5 <= s < 10, NORMAL iff s < 5; 4, 5, 9, 10 are NORMAL, HIGH, HIGH,
\* CRITICAL.
C20_UrgencyTiers ==
    calc.op = "get_urgency_level" =>
        /\ calc.result \in {"CRITICAL", "HIGH", "NORMAL"}
        /\ (calc.result = "CRITICAL") <=> (calc.score >= 10)
        /\ (calc.result = "HIGH") <=> (calc.score >= 5 /\ calc.score < 10)
        /\ (calc.result = "NORMAL") <=> (calc.score < 5)
        /\ calc.score = 4 => calc.result = "NORMAL"
        /\ calc.score \in {5, 9} => calc.result = "HIGH"
        /\ calc.score = 10 => calc.result = "CRITICAL"

\* get_urgency_level(9) has returned HIGH.
C20_Witness ==
    /\ calc.op = "get_urgency_level"
    /\ calc.score = 9
    /\ calc.result = "HIGH"


\* C21 - In a returned DataFrame, two rows with the same created and the
\* same modified timestamp have the same score.
C21_SingleInstant ==
    (calc.op = "enrich_documents_with_priority" /\ calc.done) =>
        \A i, j \in DOMAIN calc.df :
            calc.df[i] = calc.df[j] => calc.scores[i] = calc.scores[j]

\* C22 - The returned DataFrame has the rows of the input, each once, each
\* with a score and the tier of that score, and the scores do not increase
\* from the first row to the last.
C22_SameRowsSorted ==
    (calc.op = "enrich_documents_with_priority" /\ calc.done /\ calc.df # <<>>) =>
        /\ Len(calc.out) = Len(calc.df)
        /\ \A i \in DOMAIN calc.df :
            Cardinality({k \in DOMAIN calc.out : calc.out[k].index = i}) = 1
        /\ \A k \in DOMAIN calc.out :
            LET r == calc.out[k] IN
            /\ r.index \in DOMAIN calc.df
            /\ r.created = calc.df[r.index].created
            /\ r.modified = calc.df[r.index].modified
            /\ r.priority_score \in Nat
            /\ r.urgency_level = get_urgency_level(r.priority_score)
        /\ \A k \in DOMAIN calc.out :
            /\ k > 1 => calc.out[k - 1].priority_score >= calc.out[k].priority_score
            /\ calc.out[1].priority_score >= calc.out[k].priority_score
            /\ calc.out[k].priority_score >= calc.out[Len(calc.out)].priority_score

\* A DataFrame whose rows have different scores was returned with the order
\* of its rows changed.
C22_Witness ==
    /\ calc.op = "enrich_documents_with_priority"
    /\ calc.done
    /\ Len(calc.out) >= 2
    /\ calc.out[1].index = 2
    /\ calc.out[1].priority_score > calc.out[2].priority_score


\* C23 - For every display name, with the name split on " - ": with two or
\* more segments the topic is the first segment trimmed and the owner the
\* last segment trimmed and without brackets; otherwise the topic is the
\* whole name trimmed and the owner is "Unknown".
C23_SplitRule ==
    calc.op = "parse_filename" =>
        LET parts == split(calc.filename) IN
        IF Len(parts) >= 2
        THEN /\ calc.result.topic = strip(parts[1])
             /\ calc.result.architect = unbracket(strip(parts[Len(parts)]))
        ELSE /\ calc.result.topic = strip(calc.filename)
             /\ calc.result.architect = Unknown


\* C24 - A cycle over a folder in which some documents have an unparseable
\* timestamp and others do not (the worksheet exists) does not fail, and at
\* its end every document with good timestamps has a row.
C24_MalformedTimestampIsolated ==
    (/\ pc \in {"done", "nodata", "failed"}
     /\ meta.worksheet
     /\ InFolder(drive) \cap meta.bad # {}
     /\ InFolder(drive) \ meta.bad # {}) =>
        /\ pc # "failed"
        /\ \A l \in InFolder(drive) \ meta.bad : HasRow(store, l)

\* C26 - A cycle that scanned at least one document ends with the worksheet
\* in place and exactly one row for every scanned document, also when the
\* worksheet did not exist at its start.
C26_LazyInitialisation ==
    (pc \in {"done", "nodata", "failed"} /\ drive_docs # <<>>) =>
        /\ meta.worksheet
        /\ \A i \in DOMAIN drive_docs :
            Cardinality({k \in DOMAIN store : store[k].link = drive_docs[i].link}) = 1


\* C25 - After a call of upsert_documents no written row has an empty link
\* (a document without identity is skipped), and no written row with an
\* empty link carries the status or the notes of a stored row of another
\* name.
C25_MalformedIdentitySkipped ==
    pc = "returned" =>
        \A k \in DOMAIN rows_to_write :
            /\ rows_to_write[k].link # ""
            /\ rows_to_write[k].link = "" =>
                ~\E j \in DOMAIN existing_records :
                    /\ existing_records[j].link = ""
                    /\ existing_records[j].name # rows_to_write[k].name
                    /\ existing_records[j].status = rows_to_write[k].status
                    /\ existing_records[j].notes = rows_to_write[k].notes
                    /\ <<rows_to_write[k].status, rows_to_write[k].notes>> # <<"Pending", "">>


\* C27 - After upsert_documents(documents) with a list that names some of
\* the stored links, every row that was stored under a link that is not in
\* documents is still stored, with all its fields as they were.
C27_OtherRowsKept ==
    (/\ pc = "returned"
     /\ \E i \in DOMAIN documents : HasRow(existing_records, documents[i].link)) =>
        \A j \in DOMAIN existing_records :
            existing_records[j].link \notin drive_links(documents) =>
                \E k \in DOMAIN store : store[k] = existing_records[j]

\* C28 - After upsert_documents, a submitted change with a status S and
\* notes N for a link that had a row has given that row status S and
\* notes N.
C28_UserUpdateTakesEffect ==
    pc = "returned" =>
        \A i \in DOMAIN documents :
            LET l == documents[i].link IN
            (/\ HasRow(existing_records, l)
             /\ documents[i].status_override # None
             /\ documents[i].notes # None) =>
                /\ HasRow(store, l)
                /\ RowOf(store, l).status = documents[i].status_override
                /\ RowOf(store, l).notes = documents[i].notes


\* The rows of a sheet, whatever their order.
RowSet(sheet) == {sheet[i] : i \in DOMAIN sheet}

\* C29 - With an unchanging folder, no edits and no failed call, when two
\* cycles have returned, the write that completes any later cycle leaves in
\* the sheet the rows that were there after the cycle before it: the same
\* number of rows and the same name, owner, dates, status, link and notes in
\* each.
C29_FixpointAfterTwoCycles ==
    [][(events = 0 /\ cycles >= 2 /\ CycleWrites) =>
            /\ RowSet(store') = RowSet(committed)
            /\ Len(store') = Len(committed)]_vars

\* A cycle has written a sheet with a reviewed row after two cycles had
\* returned, without any failure.
C29_Witness ==
    /\ events = 0
    /\ cycles >= 2
    /\ pc = "done"
    /\ store # <<>>
    /\ \E i \in DOMAIN store : store[i].status # "Pending"


\* C30 - No document that is in the review folder is handed to
\* upsert_documents as missing (status_override Archived) by sync_job: the
\* scan of the cycle holds every document of the folder, also when the
\* folder holds more than pageSize documents.
C30_ExistingNeverArchived ==
    pc = "upsert" =>
        /\ InFolder(drive) \subseteq drive_links(drive_docs)
        /\ \A i \in DOMAIN documents :
                documents[i].status_override = "Archived" =>
                    documents[i].link \notin InFolder(drive)


\* C31 - When sync_job has scanned no document and reads a sheet in which
\* every row is Archived (or no row at all), final_list is empty, the job
\* goes to "No data to process" without calling upsert_documents, and it
\* returns from there with the rows of the sheet as they were and nothing
\* written.
C31_EmptyCycleWritesNothing ==
    [][/\ (/\ pc = "read"
           /\ pc' \notin {"read", "failed"}
           /\ drive_docs = <<>>
           /\ \A i \in DOMAIN store : store[i].status = "Archived") =>
              /\ final_list(drive_docs, store) = <<>>
              /\ pc' = "nodata"
              /\ store' = store
              /\ ~trail'.wrote
       /\ (pc = "nodata" /\ pc' # "nodata") =>
              /\ pc' = "idle"
              /\ store' = store
              /\ ~trail.wrote]_vars

\* A cycle with an empty scan has read a sheet that holds Archived rows only
\* and has ended without a write.
C31_Witness ==
    /\ pc = "nodata"
    /\ drive_docs = <<>>
    /\ existing_rows = store
    /\ store # <<>>
    /\ \A i \in DOMAIN store : store[i].status = "Archived"
    /\ ~trail.wrote
====
